---- MODULE Spec2Model ----
(***************************************************************************)
(* Laundry status dashboard (new_echizenya_hotel.py).                      *)
(*                                                                         *)
(* Server: Flask route /api/data (api_data) with helpers _to_num and       *)
(* _parse_iso8601.  Client: the script embedded in HTML (load, apply,      *)
(* setAvailableView, setInterval).                                         *)
(*                                                                         *)
(* Numbers are fixed point, in hundredths: 0.05 is 5, 0.10 is 10.          *)
(* Strings that get parsed are tuples of tokens: one character per token   *)
(* for numeric fields, one lexical piece per token for timestamps.         *)
(***************************************************************************)
EXTENDS Integers, Sequences, FiniteSets, TLC

VARIABLES config, now, resp, polls, created_text, cards, applied

vars == <<config, now, resp, polls, created_text, cards, applied>>

(***************************************************************************)
(* Bounds of the model.                                                    *)
(***************************************************************************)
MaxPolls == 2
MaxCalls == 2

(***************************************************************************)
(* JSON values as the upstream sends them (what r.json() returns).         *)
(***************************************************************************)
JNull == [t |-> "null"]
JBool(b) == [t |-> "bool", b |-> b]
\* the integer n * 10^e10
JInt(n, e10) == [t |-> "int", n |-> n, e10 |-> e10]
\* k is "fin", "nan", "inf" or "-inf"; v is the value in hundredths when k = "fin"
JFloat(k, v) == [t |-> "float", k |-> k, v |-> v]
JStr(s) == [t |-> "str", s |-> s]
JList(items) == [t |-> "list", items |-> items]
JDict(f) == [t |-> "dict", f |-> f]

\* Python values produced by the helpers
None == [t |-> "None"]
PyFloat(k, v) == [t |-> "float", k |-> k, v |-> v]
IsFinite(x) == x.t = "float" /\ x.k = "fin"

Slots == <<"d1", "d2", "d3", "d4">>
SlotSet == {"d1", "d2", "d3", "d4"}

(***************************************************************************)
(* Configuration read from the environment at import time.                 *)
(***************************************************************************)
DEFAULT_CHANNEL_ID == 95641
DEFAULT_BASE_URL == "http://ambidata.io"
THRESHOLD == 5
TIMEOUT == 10

CHANNEL_ID == config.channel_id
READ_KEY == config.read_key
AMBIENT_BASE_URL == config.base_url

AMBIENT_URL == "http://ambidata.io/api/v2/channels/" \o ToString(CHANNEL_ID) \o "/data"

Configs ==
    { [channel_id |-> DEFAULT_CHANNEL_ID, read_key |-> "", base_url |-> DEFAULT_BASE_URL],
      [channel_id |-> DEFAULT_CHANNEL_ID, read_key |-> "k3y", base_url |-> "http://localhost:9000"],
      [channel_id |-> 7, read_key |-> "k3y", base_url |-> DEFAULT_BASE_URL] }

(***************************************************************************)
(* float(v) on a string: Python strips white space, takes an optional      *)
(* sign, then either inf / infinity / nan in any case or a decimal         *)
(* literal.  Fraction digits past the second are below the model's         *)
(* resolution and are dropped; the inputs drawn below have at most two.    *)
(* Exponents are not in the alphabet of the model.                         *)
(***************************************************************************)
DigitVal == [c \in {"0", "1", "2", "3", "4", "5", "6", "7", "8", "9"} |->
    CASE c = "0" -> 0 [] c = "1" -> 1 [] c = "2" -> 2 [] c = "3" -> 3 [] c = "4" -> 4
      [] c = "5" -> 5 [] c = "6" -> 6 [] c = "7" -> 7 [] c = "8" -> 8 [] c = "9" -> 9]

IsDigit(c) == c \in DOMAIN DigitVal

Lower(c) ==
    CASE c = "N" -> "n" [] c = "A" -> "a" [] c = "I" -> "i" [] c = "F" -> "f"
      [] c = "T" -> "t" [] c = "Y" -> "y" [] OTHER -> c

LowerAll(s) == [i \in 1..Len(s) |-> Lower(s[i])]

RECURSIVE LStrip(_)
LStrip(s) == IF s # <<>> /\ Head(s) = " " THEN LStrip(Tail(s)) ELSE s

RECURSIVE RStrip(_)
RStrip(s) ==
    IF s # <<>> /\ s[Len(s)] = " " THEN RStrip(SubSeq(s, 1, Len(s) - 1)) ELSE s

Strip(s) == RStrip(LStrip(s))

RECURSIVE DigitsValue(_)
DigitsValue(s) ==
    IF s = <<>> THEN 0 ELSE 10 * DigitsValue(SubSeq(s, 1, Len(s) - 1)) + DigitVal[s[Len(s)]]

AllDigits(s) == \A i \in 1..Len(s) : IsDigit(s[i])

DotAt(s) == {i \in 1..Len(s) : s[i] = "."}

\* hundredths denoted by the fraction digits f
FracValue(f) ==
    (IF Len(f) >= 1 THEN 10 * DigitVal[f[1]] ELSE 0) + (IF Len(f) >= 2 THEN DigitVal[f[2]] ELSE 0)

\* [ok, k, v]: ok = FALSE stands for ValueError
ParseDecimal(s) ==
    LET dots == DotAt(s)
        p == IF dots = {} THEN Len(s) + 1 ELSE CHOOSE i \in dots : \A j \in dots : i <= j
        ip == SubSeq(s, 1, p - 1)
        fp == SubSeq(s, p + 1, Len(s))
    IN  IF Cardinality(dots) <= 1 /\ AllDigits(ip) /\ AllDigits(fp) /\ Len(ip) + Len(fp) >= 1
        THEN [ok |-> TRUE, k |-> "fin", v |-> 100 * DigitsValue(ip) + FracValue(fp)]
        ELSE [ok |-> FALSE, k |-> "fin", v |-> 0]

float_of_str(s) ==
    LET t == Strip(s)
        neg == t # <<>> /\ Head(t) = "-"
        signed == t # <<>> /\ Head(t) \in {"-", "+"}
        body == IF signed THEN Tail(t) ELSE t
        low == LowerAll(body)
        dec == ParseDecimal(body)
    IN  IF low = <<"n", "a", "n">> THEN [ok |-> TRUE, k |-> "nan", v |-> 0]
        ELSE IF low \in {<<"i", "n", "f">>, <<"i", "n", "f", "i", "n", "i", "t", "y">>}
        THEN [ok |-> TRUE, k |-> IF neg THEN "-inf" ELSE "inf", v |-> 0]
        ELSE IF dec.ok THEN [ok |-> TRUE, k |-> "fin", v |-> IF neg THEN 0 - dec.v ELSE dec.v]
        ELSE dec

RECURSIVE Pow10(_)
Pow10(e) == IF e = 0 THEN 1 ELSE 10 * Pow10(e - 1)

\* number of decimal digits of n > 0
RECURSIVE NumDigits(_)
NumDigits(n) == IF n < 10 THEN 1 ELSE 1 + NumDigits(n \div 10)

\* largest power of ten a double holds (sys.float_info.max_10_exp)
DBL_MAX_10_EXP == 308

(***************************************************************************)
(* _to_num(v).  Result [exc, val]: exc = "" is a normal return, otherwise  *)
(* the name of the exception that leaves the function.                     *)
(***************************************************************************)
Return(val) == [exc |-> "", val |-> val]
Raise(name) == [exc |-> name, val |-> None]

\* float(v) for the argument types JSON can produce: [exc, val]
float_(v) ==
    CASE v.t = "str" ->
            LET r == float_of_str(v.s)
            IN  IF r.ok THEN Return(PyFloat(r.k, r.v)) ELSE Raise("ValueError")
      [] v.t = "float" -> Return(PyFloat(v.k, v.v))
      [] v.t = "int" ->
            IF v.n = 0 THEN Return(PyFloat("fin", 0))
            ELSE IF NumDigits(IF v.n < 0 THEN 0 - v.n ELSE v.n) + v.e10 > DBL_MAX_10_EXP + 1
            THEN Raise("OverflowError")
            ELSE Return(PyFloat("fin", 100 * v.n * Pow10(v.e10)))
      [] v.t = "bool" -> Return(PyFloat("fin", IF v.b THEN 100 ELSE 0))
      [] OTHER -> Raise("TypeError")

_to_num(v) ==
    IF v.t = "null" \/ v = JStr(<<>>) THEN Return(None)
    ELSE LET r == float_(v)
         IN  IF r.exc \in {"TypeError", "ValueError"} THEN Return(None) ELSE r

(***************************************************************************)
(* _parse_iso8601(s).  A timestamp string is a tuple of lexical pieces:    *)
(* <<date, sep, time>> with an optional trailing offset piece or "Z".      *)
(* datetime.fromisoformat reads the pieces; minutes count from             *)
(* 2025-01-01T00:00.                                                       *)
(***************************************************************************)
DateDays == [d \in {"2025-01-01", "2025-01-02", "2025-06-01"} |->
    CASE d = "2025-01-01" -> 0 [] d = "2025-01-02" -> 1 [] d = "2025-06-01" -> 151]

TimeMinutes == [c \in {"00:00:00", "09:00:00", "12:00:00"} |->
    CASE c = "00:00:00" -> 0 [] c = "09:00:00" -> 540 [] c = "12:00:00" -> 720]

OffsetMinutes == [z \in {"+00:00", "+09:00", "-05:00"} |->
    CASE z = "+00:00" -> 0 [] z = "+09:00" -> 540 [] z = "-05:00" -> 0 - 300]

\* a datetime: local minutes, and the UTC offset unless naive
DateTime(min, naive, off) == [t |-> "datetime", min |-> min, naive |-> naive, off |-> off]

\* datetime.fromisoformat(s): [exc, val]
fromisoformat(s) ==
    IF Len(s) \in {3, 4} /\ s[1] \in DOMAIN DateDays /\ s[2] \in {"T", " "}
       /\ s[3] \in DOMAIN TimeMinutes /\ (Len(s) = 4 => s[4] \in DOMAIN OffsetMinutes)
    THEN Return(DateTime(1440 * DateDays[s[1]] + TimeMinutes[s[3]], Len(s) = 3,
                         IF Len(s) = 4 THEN OffsetMinutes[s[4]] ELSE 0))
    ELSE IF Len(s) = 1 /\ s[1] \in DOMAIN DateDays
    THEN Return(DateTime(1440 * DateDays[s[1]], TRUE, 0))
    ELSE Raise("ValueError")

\* dt.astimezone(timezone.utc) of an aware datetime
astimezone_utc(dt) == DateTime(dt.min - dt.off, FALSE, 0)

\* s.replace("Z", "+00:00")
replace_Z(s) == [i \in 1..Len(s) |-> IF s[i] = "Z" THEN "+00:00" ELSE s[i]]

\* Python truth value of a JSON value
Truthy(v) ==
    CASE v.t = "null" -> FALSE
      [] v.t = "bool" -> v.b
      [] v.t = "int" -> v.n # 0
      [] v.t = "float" -> ~(v.k = "fin" /\ v.v = 0)
      [] v.t = "str" -> v.s # <<>>
      [] v.t = "list" -> v.items # <<>>
      [] v.t = "dict" -> DOMAIN v.f # {}
      [] OTHER -> FALSE

\* variant: a created that does not parse is defaulted to the epoch
_parse_iso8601_defaulting(s) ==
    IF ~Truthy(s) \/ s.t # "str" THEN DateTime(0, FALSE, 0)
    ELSE LET r == fromisoformat(IF s.s[Len(s.s)] = "Z" THEN replace_Z(s.s) ELSE s.s)
         IN  IF r.exc # "" THEN DateTime(0, FALSE, 0) ELSE astimezone_utc(r.val)

\* the argument is a JSON value, or JNull for None; the result a datetime or None
_parse_iso8601(s) ==
    IF ~Truthy(s) THEN None
    ELSE IF s.t # "str" THEN None   \* s.endswith raises AttributeError: except Exception
    ELSE IF s.s[Len(s.s)] = "Z"
    THEN LET r == fromisoformat(replace_Z(s.s))
         IN  IF r.exc # "" THEN None ELSE astimezone_utc(r.val)
    ELSE LET r == fromisoformat(s.s)
         IN  IF r.exc # "" THEN None
             ELSE astimezone_utc(IF r.val.naive THEN DateTime(r.val.min, FALSE, 0) ELSE r.val)

\* created_dt.isoformat() of a UTC datetime: the instant, rendered with +00:00
isoformat(dt) == [t |-> "isostr", utcmin |-> dt.min, suffix |-> "+00:00"]

\* datetime.now(timezone.utc).isoformat()
server_now_iso(clock) == [t |-> "isostr", utcmin |-> clock, suffix |-> "+00:00"]

(***************************************************************************)
(* What the upstream does with the one GET of an invocation.               *)
(*   kind "ConnectionError" / "Timeout": requests.get raises, text = str(e) *)
(*   kind "response": an HTTP response with a status, a reason and a body;  *)
(*   the body is JSON (body.json = TRUE, body.value) or not JSON at all.    *)
(***************************************************************************)
NetError(kind, text) ==
    [kind |-> kind, text |-> text, status |-> 0, body |-> [json |-> FALSE, value |-> JNull]]
HttpResponse(status, reason, body) ==
    [kind |-> "response", text |-> reason, status |-> status, body |-> body]
JsonBody(v) == [json |-> TRUE, value |-> v]
NotJson == [json |-> FALSE, value |-> JNull]

\* a response of this server: exc names the exception that left the view function
Response(status, body, exc, gets) ==
    [status |-> status, body |-> body, exc |-> exc, gets |-> gets]

\* row.get(k): the value, or None (JNull) when the key is missing
row_get(row, k) == IF k \in DOMAIN row.f THEN row.f[k] ELSE JNull

\* str(e) of the HTTPError raise_for_status() raises
http_error_text(o, url) ==
    ToString(o.status) \o " Error: " \o o.text \o " for url: " \o url

(***************************************************************************)
(* api_data(): one invocation of GET /api/data, the upstream answering o   *)
(* and the clock reading `clock` when the response is built.               *)
(***************************************************************************)
\* variant: a failed GET is tried once more
upstream_get_retrying(o) ==
    LET get == [url |-> AMBIENT_URL, params |-> [readKey |-> READ_KEY, n |-> 1], timeout |-> TIMEOUT]
    IN  IF o.kind # "response"
        THEN [gets |-> <<get, get>>, exc |-> "RequestException", text |-> o.text, data |-> JNull]
        ELSE IF o.status >= 400
        THEN [gets |-> <<get, get>>, exc |-> "RequestException",
              text |-> http_error_text(o, AMBIENT_URL), data |-> JNull]
        ELSE IF ~o.body.json
        THEN [gets |-> <<get>>, exc |-> "RequestException",
              text |-> "Expecting value: line 1 column 1 (char 0)", data |-> JNull]
        ELSE [gets |-> <<get>>, exc |-> "", text |-> "", data |-> o.body.value]

\* requests.get, raise_for_status, r.json(): the GETs made, and the data or the
\* RequestException (requests raises its own JSONDecodeError for a body that is not JSON)
upstream_get(o) ==
    LET params == [readKey |-> READ_KEY, n |-> 1]
        gets == <<[url |-> AMBIENT_URL, params |-> params, timeout |-> TIMEOUT]>>
    IN  IF o.kind # "response"
        THEN [gets |-> gets, exc |-> "RequestException", text |-> o.text, data |-> JNull]
        ELSE IF o.status >= 400
        THEN [gets |-> gets, exc |-> "RequestException",
              text |-> http_error_text(o, AMBIENT_URL), data |-> JNull]
        ELSE IF ~o.body.json
        THEN [gets |-> gets, exc |-> "RequestException",
              text |-> "Expecting value: line 1 column 1 (char 0)", data |-> JNull]
        ELSE [gets |-> gets, exc |-> "", text |-> "", data |-> o.body.value]

\* except requests.RequestException as e
on_RequestException(text, gets) == Response(502, [error |-> text], "", gets)

\* except ValueError as e
on_ValueError(text, gets) ==
    Response(502, [error |-> "Invalid response from Ambient: " \o text], "", gets)

\* an exception no except clause names leaves api_data: Flask answers 500
uncaught(name, gets) == Response(500, [html |-> "Internal Server Error"], name, gets)

\* variant: an upstream without data is reported as an error
empty_payload_as_error(clock, gets) == Response(502, [error |-> "no data"], "", gets)

\* the payload for an upstream without data
empty_payload(clock, gets) ==
    Response(200, [created |-> JNull, server_now |-> server_now_iso(clock),
                   values |-> [k \in SlotSet |-> None]], "", gets)

success_payload(created_dt, vals, clock, gets) ==
    Response(200, [created |-> isoformat(created_dt), server_now |-> server_now_iso(clock),
                   values |-> vals], "", gets)

api_data(o, clock) ==
    LET got == upstream_get(o)
        gets == got.gets
        data == got.data
        row == IF data.t = "list" THEN data.items[1] ELSE JNull
        created_dt == _parse_iso8601(row_get(row, "created"))
        nums == [k \in SlotSet |-> _to_num(row_get(row, k))]
        raised == {i \in 1..4 : nums[Slots[i]].exc # ""}
        first == CHOOSE i \in raised : \A j \in raised : i <= j
    IN  IF got.exc = "RequestException" THEN on_RequestException(got.text, gets)
        ELSE IF ~Truthy(data) THEN empty_payload(clock, gets)
        ELSE IF data.t = "dict" THEN uncaught("KeyError", gets)
        ELSE IF data.t \in {"int", "float", "bool"} THEN uncaught("TypeError", gets)
        ELSE IF data.t = "str" \/ row.t # "dict" THEN uncaught("AttributeError", gets)
        ELSE IF created_dt = None THEN on_ValueError("Invalid created timestamp", gets)
        ELSE IF raised # {} THEN uncaught(nums[Slots[first]].exc, gets)
        ELSE success_payload(created_dt, [k \in SlotSet |-> nums[k].val], clock, gets)

(***************************************************************************)
(* Inputs: what the upstream can answer.                                   *)
(***************************************************************************)
RawValues ==
    { JNull,
      JStr(<<>>),
      JStr(<<"a", "b", "c">>),
      JStr(<<"N", "a", "N">>),
      JStr(<<"-", "i", "n", "f">>),
      JStr(<<"0", ".", "1", "0">>),
      JStr(<<" ", "0", ".", "0", "5", " ">>),
      JFloat("fin", 1),
      JInt(1, 400),
      JList(<<>>) }

GoodCreated == JStr(<<"2025-06-01", "T", "12:00:00", "Z">>)

CreatedValues ==
    { GoodCreated,
      JStr(<<"2025-01-01", "T", "09:00:00", "+09:00">>),
      JStr(<<"2025-01-01", "T", "00:00:00">>),
      JStr(<<"2025-01-02">>),
      JNull,
      JStr(<<>>),
      JStr(<<"yesterday">>),
      JStr(<<"Z">>),
      JStr(<<"2025-06-01", "T", "12:00:00", "UTC">>),
      JInt(5, 0) }

Row(created, d) ==
    JDict([k \in {"created"} \cup SlotSet |-> IF k = "created" THEN created ELSE d[k]])

\* the row of the spec's end-to-end scenario, a row on the threshold, an all-valid row
ScenarioD == [k \in SlotSet |->
    CASE k = "d1" -> JStr(<<"0", ".", "1", "0">>) [] k = "d2" -> JNull
      [] k = "d3" -> JStr(<<"0", ".", "0", "1">>) [] k = "d4" -> JStr(<<"a", "b", "c">>)]
BoundaryD == [k \in SlotSet |->
    CASE k = "d1" -> JStr(<<"0", ".", "0", "5">>) [] k = "d2" -> JStr(<<"0", ".", "0", "4">>)
      [] k = "d3" -> JFloat("fin", 6) [] k = "d4" -> JStr(<<>>)]
ValidD == [k \in SlotSet |-> JInt(1, 0)]
NanD == [k \in SlotSet |-> IF k = "d2" THEN JStr(<<"N", "a", "N">>) ELSE JFloat("fin", 7)]

\* a record without some of its keys
NoCreatedRow == JDict([k \in SlotSet |-> ValidD[k]])
NoD3Row == JDict([k \in {"created", "d1", "d2", "d4"} |-> IF k = "created" THEN GoodCreated ELSE ValidD[k]])

Rows ==
    {Row(GoodCreated, d) : d \in [SlotSet -> RawValues]}
    \cup {Row(c, d) : c \in CreatedValues, d \in {ScenarioD, BoundaryD, ValidD, NanD}}
    \cup {NoCreatedRow, NoD3Row}

FailureOutcomes ==
    { NetError("ConnectionError", "Connection refused"),
      NetError("Timeout", "Read timed out. (read timeout=10)"),
      HttpResponse(500, "Internal Server Error", NotJson),
      HttpResponse(404, "Not Found", JsonBody(JList(<<>>))) }

OddBodies ==
    { NotJson,
      JsonBody(JList(<<>>)),
      JsonBody(JNull),
      JsonBody(JDict([error |-> JStr(<<"quota">>)])),
      JsonBody(JInt(5, 0)),
      JsonBody(JStr(<<"o", "k">>)),
      JsonBody(JList(<<JInt(1, 0)>>)),
      JsonBody(JList(<<JNull>>)) }

UpstreamOutcomes ==
    FailureOutcomes
    \cup {HttpResponse(200, "OK", b) : b \in OddBodies}
    \cup {HttpResponse(200, "OK", JsonBody(JList(<<r>>))) : r \in Rows}

\* what the upstream answers while a page polls: a representative of each path
PollOutcomes ==
    { NetError("ConnectionError", "Connection refused"),
      HttpResponse(200, "OK", JsonBody(JList(<<>>))),
      HttpResponse(200, "OK", JsonBody(JDict([error |-> JStr(<<"quota">>)]))),
      HttpResponse(200, "OK", JsonBody(JList(<<Row(GoodCreated, ScenarioD)>>))),
      HttpResponse(200, "OK", JsonBody(JList(<<Row(GoodCreated, BoundaryD)>>))),
      HttpResponse(200, "OK", JsonBody(JList(<<Row(GoodCreated, NanD)>>))),
      HttpResponse(200, "OK", JsonBody(JList(<<Row(JStr(<<"yesterday">>), ValidD)>>))) }

(***************************************************************************)
(* The page: the DOM the script writes, and the script.                    *)
(***************************************************************************)
\* the markup of a card: <span class="val">--</span>, washer hidden, no inline style
InitCard == [val |-> "--", background |-> "", hidden |-> TRUE]
InitCards == [k \in SlotSet |-> InitCard]
InitCreated == [kind |-> "text", text |-> "--", utcmin |-> 0]

\* the text U+2014 the script writes for "no value"; the markup starts with two hyphens
DASH == "[em dash]"

\* getVar(name): the CSS variable's value
getVar(name) ==
    CASE name = "--ok" -> "#2ecc71" [] name = "--warn" -> "#FF4C4C" [] name = "--base" -> "#f3f4f6"

\* the card texts U+4F7F U+7528 U+53EF and U+4F7F U+7528 U+4E2D
AVAILABLE == "available"
IN_USE == "in use"

\* JS values of a parsed payload: null (JNull) or a number (JFloat)
js_lt(a, b) ==
    CASE a.k = "fin" -> a.v < b
      [] a.k = "-inf" -> TRUE
      [] OTHER -> FALSE
js_ge(a, b) ==
    CASE a.k = "fin" -> a.v >= b
      [] a.k = "inf" -> TRUE
      [] OTHER -> FALSE

\* variant: a value on the threshold counts as available
setAvailableView_strict(key, num, dom) ==
    LET above == num.t # "null" /\ js_ge(num, THRESHOLD + 1)
        shown == IF num.t = "null" THEN [val |-> DASH, background |-> getVar("--base")]
                 ELSE IF ~above THEN [val |-> AVAILABLE, background |-> getVar("--ok")]
                 ELSE [val |-> IN_USE, background |-> getVar("--warn")]
    IN  [dom EXCEPT ![key] = [val |-> shown.val, background |-> shown.background, hidden |-> ~above]]

\* setAvailableView(key, num): the DOM after it
setAvailableView(key, num, dom) ==
    LET shown == IF num.t = "null" THEN [val |-> DASH, background |-> getVar("--base")]
                 ELSE IF js_lt(num, THRESHOLD) THEN [val |-> AVAILABLE, background |-> getVar("--ok")]
                 ELSE [val |-> IN_USE, background |-> getVar("--warn")]
        hidden == ~(num.t # "null" /\ js_ge(num, THRESHOLD))
    IN  [dom EXCEPT ![key] = [val |-> shown.val, background |-> shown.background, hidden |-> hidden]]

\* Number(v)
js_Number(v) ==
    CASE v.t = "null" -> JFloat("fin", 0)
      [] v.t = "float" -> v

\* (v===null || v==="" || Number.isNaN(Number(v))) ? null : Number(v)
coerce(v) ==
    IF v.t = "null" \/ v = JStr(<<>>) \/ js_Number(v).k = "nan" THEN JNull ELSE js_Number(v)

\* Object.entries(values).forEach(...) over the entries from the i-th on
RECURSIVE forEachEntry(_, _, _, _)
forEachEntry(keys, i, values, dom) ==
    IF i > Len(keys) THEN dom
    ELSE forEachEntry(keys, i + 1, values,
                      setAvailableView(keys[i], coerce(values[keys[i]]), dom))

\* variant: entries whose value is null are skipped
EntryKeys_skipping_null(values) ==
    SelectSeq(Slots, LAMBDA k : k \in DOMAIN values /\ values[k].t # "null")

\* the keys of `values`, in d1..d4 order
EntryKeys(values) == SelectSeq(Slots, LAMBDA k : k \in DOMAIN values)

\* apply(payload): [created_text, cards]
apply(payload, dom) ==
    LET created == IF "created" \in DOMAIN payload THEN payload.created ELSE JNull
        values == IF "values" \in DOMAIN payload THEN payload.values ELSE <<>>
    IN  [created_text |-> IF created.t # "null"
                          THEN [kind |-> "localized", text |-> "", utcmin |-> created.utcmin]
                          ELSE [kind |-> "text", text |-> DASH, utcmin |-> 0],
         cards |-> forEachEntry(EntryKeys(values), 1, values, dom)]

\* the value JSON.parse gives for a Python value of the body
js_of(x) == IF x.t = "None" THEN JNull ELSE JFloat(x.k, x.v)

\* jsonify writes a non-finite float as the token NaN / Infinity, which JSON.parse rejects
ParsesAsJson(body) ==
    "values" \in DOMAIN body => \A k \in DOMAIN body.values : body.values[k].t = "None" \/ IsFinite(body.values[k])

\* r.json() of a body that parses
parsed(body) ==
    IF "values" \in DOMAIN body
    THEN [created |-> body.created, values |-> [k \in DOMAIN body.values |-> js_of(body.values[k])]]
    ELSE body

(***************************************************************************)
(* State.                                                                  *)
(*   config        the environment read at import                          *)
(*   now           the server's clock, read by datetime.now                *)
(*   resp          the request of a caller that is not the page            *)
(*   polls         the load() calls of the page, in start order            *)
(*   created_text  the text of #created                                    *)
(*   cards         the four cards                                          *)
(*   applied       history: the polls whose payload reached apply()        *)
(***************************************************************************)
NoResponse == Response(0, [html |-> ""], "", <<>>)
NoOutcome == NetError("", "")

Init ==
    /\ config \in Configs
    /\ now = 0
    /\ resp = [state |-> "idle", input |-> NoOutcome, out |-> NoResponse]
    /\ polls = <<>>
    /\ created_text = InitCreated
    /\ cards = InitCards
    /\ applied = <<>>

\* a poll: awaiting fetch ("pending"), fetch resolved ("responded"), load() returned ("done")
Poll(state, out, outcome) == [state |-> state, out |-> out, outcome |-> outcome]

\* load() up to its await: fetch('/api/data') is sent
StartLoad ==
    /\ polls' = Append(polls, Poll("pending", NoResponse, ""))
    /\ UNCHANGED <<config, now, resp, created_text, cards, applied>>

\* the script runs: load(); setInterval(load, POLL_MS)
PageLoad ==
    /\ polls = <<>>
    /\ StartLoad

\* the interval fires: load() again, whatever is in flight
TimerTick ==
    /\ polls # <<>>
    /\ Len(polls) < MaxPolls
    /\ StartLoad

\* the server runs api_data for the request of poll i
ServerHandle(i, o) ==
    /\ polls[i].state = "pending"
    /\ polls' = [polls EXCEPT ![i] = Poll("responded", api_data(o, now), "")]
    /\ now' = now + 1
    /\ UNCHANGED <<config, resp, created_text, cards, applied>>

\* variant: a failed poll resets the cards to unknown
load_catch_resetting(message, dom) ==
    [created_text |-> [kind |-> "error", text |-> message, utcmin |-> 0],
     cards |-> [k \in SlotSet |-> [val |-> DASH, background |-> getVar("--base"), hidden |-> TRUE]]]

\* the catch block of load(): [created_text, cards]
load_catch(message, dom) ==
    [created_text |-> [kind |-> "error", text |-> message, utcmin |-> 0], cards |-> dom]

\* fetch rejects (the server is unreachable): load() resumes in its catch block
FetchFails(i) ==
    /\ polls[i].state = "pending"
    /\ polls' = [polls EXCEPT ![i] = Poll("done", NoResponse, "caught")]
    /\ created_text' = load_catch("Failed to fetch", cards).created_text
    /\ cards' = load_catch("Failed to fetch", cards).cards
    /\ UNCHANGED <<config, now, resp, applied>>

\* load() after fetch resolves with response r: [created_text, cards, outcome]
load_resume(r, dom) ==
    IF ~(r.status >= 200 /\ r.status <= 299)
    THEN load_catch("HTTP " \o ToString(r.status), dom) @@ [outcome |-> "caught"]
    ELSE IF ~ParsesAsJson(r.body)
    THEN load_catch("Unexpected token in JSON", dom) @@ [outcome |-> "caught"]
    ELSE apply(parsed(r.body), dom) @@ [outcome |-> "applied"]

\* variant: a response is dropped when a poll started later was already applied
LoadResume_sequenced(i) ==
    /\ polls[i].state = "responded"
    /\ LET stale == \E n \in 1..Len(applied) : applied[n] > i
           after == IF stale THEN [created_text |-> created_text, cards |-> cards, outcome |-> "stale"]
                    ELSE load_resume(polls[i].out, cards)
       IN  /\ polls' = [polls EXCEPT ![i] = Poll("done", polls[i].out, after.outcome)]
           /\ created_text' = after.created_text
           /\ cards' = after.cards
           /\ applied' = IF after.outcome = "applied" THEN Append(applied, i) ELSE applied
    /\ UNCHANGED <<config, now, resp>>

\* the rest of load() for poll i: no task runs between the status test and apply()
LoadResume(i) ==
    /\ polls[i].state = "responded"
    /\ LET after == load_resume(polls[i].out, cards)
       IN  /\ polls' = [polls EXCEPT ![i] = Poll("done", polls[i].out, after.outcome)]
           /\ created_text' = after.created_text
           /\ cards' = after.cards
           /\ applied' = IF after.outcome = "applied" THEN Append(applied, i) ELSE applied
    /\ UNCHANGED <<config, now, resp>>

Next ==
    \/ PageLoad
    \/ TimerTick
    \/ \E i \in DOMAIN polls, o \in PollOutcomes : ServerHandle(i, o)
    \/ \E i \in DOMAIN polls : FetchFails(i)
    \/ \E i \in DOMAIN polls : LoadResume(i)

Spec == Init /\ [][Next]_vars

(***************************************************************************)
(* The endpoint on its own: a caller sends GET /api/data, the upstream     *)
(* answers anything it can, the view function returns.                     *)
(***************************************************************************)
CallEndpoint ==
    /\ resp.state # "pending"
    /\ now < MaxCalls
    /\ resp' = [state |-> "pending", input |-> NoOutcome, out |-> NoResponse]
    /\ UNCHANGED <<config, now, polls, created_text, cards, applied>>

EndpointReturns(o) ==
    /\ resp' = [state |-> "done", input |-> o, out |-> api_data(o, now)]
    /\ now' = now + 1
    /\ UNCHANGED <<config, polls, created_text, cards, applied>>

NextEndpoint ==
    \/ CallEndpoint
    \/ resp.state = "pending" /\ \E o \in UpstreamOutcomes : EndpointReturns(o)

SpecEndpoint == Init /\ [][NextEndpoint]_vars

(***************************************************************************)
(* Properties of the endpoint (checked under SpecEndpoint).                *)
(***************************************************************************)
Returned == resp.state = "done"

\* the upstream answered 2xx with a JSON list whose first item is an object
FirstRecordIsObject(o) ==
    /\ o.kind = "response" /\ o.status < 400 /\ o.body.json
    /\ o.body.value.t = "list" /\ o.body.value.items # <<>>
    /\ o.body.value.items[1].t = "dict"

FirstRecord(o) == o.body.value.items[1]

\* raw values the spec calls null, empty, non-numeric or non-finite
AbsentRawValues ==
    { JNull, JStr(<<>>), JStr(<<"a", "b", "c">>), JStr(<<"N", "a", "N">>), JStr(<<"-", "i", "n", "f">>) }

\* C1: in every success response each of d1..d4 is a finite number or null, and
\* a raw null, "", non-numeric string or non-finite token gives null, slot by slot.
C1_ValuesFiniteOrNull ==
    (Returned /\ resp.out.status = 200) =>
        \A k \in SlotSet :
            /\ resp.out.body.values[k] = None \/ IsFinite(resp.out.body.values[k])
            /\ (/\ FirstRecordIsObject(resp.input)
                /\ k \in DOMAIN FirstRecord(resp.input).f
                /\ FirstRecord(resp.input).f[k] \in AbsentRawValues)
               => resp.out.body.values[k] = None

\* C2: every invocation ends as 200 with the success payload or as 502 with
\* {"error": string}; no exception leaves the endpoint.
C2_SuccessOr502 ==
    Returned =>
        /\ resp.out.exc = ""
        /\ \/ resp.out.status = 200 /\ DOMAIN resp.out.body = {"created", "server_now", "values"}
           \/ resp.out.status = 502 /\ DOMAIN resp.out.body = {"error"}

\* created values that are missing, empty or unparseable
BadCreatedValues ==
    { JNull, JStr(<<>>), JStr(<<"yesterday">>), JStr(<<"Z">>),
      JStr(<<"2025-06-01", "T", "12:00:00", "UTC">>), JInt(5, 0) }

BadCreated(o) ==
    /\ FirstRecordIsObject(o)
    /\ \/ "created" \notin DOMAIN FirstRecord(o).f
       \/ FirstRecord(o).f["created"] \in BadCreatedValues

IsFailure(o) == o.kind # "response" \/ o.status >= 400

\* the error messages the endpoint gives for network / HTTP failures
NetworkFailureMessages == {api_data(o, 0).body.error : o \in FailureOutcomes}

\* C3: a first record whose created is missing, empty or unparseable gives 502
\* with an error message that no network / HTTP failure gives, and no values.
C3_BadCreatedIsFatal ==
    (Returned /\ BadCreated(resp.input)) =>
        /\ resp.out.status = 502
        /\ "error" \in DOMAIN resp.out.body
        /\ resp.out.body.error \notin NetworkFailureMessages
        /\ "values" \notin DOMAIN resp.out.body

C3_Witness ==
    /\ Returned /\ BadCreated(resp.input)
    /\ \A k \in SlotSet : FirstRecord(resp.input).f[k] = JInt(1, 0)
    /\ resp.out.status = 502

\* str(e) of the failure the upstream produced
UnderlyingText(o, url) == IF o.kind # "response" THEN o.text ELSE http_error_text(o, url)

EmptyList(o) ==
    /\ o.kind = "response" /\ o.status < 400 /\ o.body.json
    /\ o.body.value = JList(<<>>)

\* C5: an empty upstream list gives 200 with created null, server_now present
\* and d1..d4 null, not an error.
C5_EmptyListIsSuccess ==
    (Returned /\ EmptyList(resp.input)) =>
        /\ resp.out.status = 200
        /\ "error" \notin DOMAIN resp.out.body
        /\ resp.out.body.created = JNull
        /\ "server_now" \in DOMAIN resp.out.body
        /\ resp.out.body.server_now.t = "isostr"
        /\ \A k \in SlotSet : resp.out.body.values[k] = None

C5_Witness == Returned /\ EmptyList(resp.input) /\ resp.out.status = 200

\* C6: the outbound GET goes to {AMBIENT_BASE_URL}/api/v2/channels/{CHANNEL_ID}/data
\* with readKey = READ_KEY and n = 1.
C6_OutboundUsesBaseUrl ==
    Returned =>
        \A g \in 1..Len(resp.out.gets) :
            /\ resp.out.gets[g].url =
                    AMBIENT_BASE_URL \o "/api/v2/channels/" \o ToString(CHANNEL_ID) \o "/data"
            /\ resp.out.gets[g].params = [readKey |-> READ_KEY, n |-> 1]

(***************************************************************************)
(* Properties of the page (checked under Spec).                            *)
(***************************************************************************)
\* what a card is to show for a value of a payload: None or a finite number
ExpectedCard(x) ==
    IF x.t = "None" THEN [val |-> DASH, background |-> "#f3f4f6", hidden |-> TRUE]
    ELSE IF x.v < THRESHOLD THEN [val |-> AVAILABLE, background |-> "#2ecc71", hidden |-> TRUE]
    ELSE [val |-> IN_USE, background |-> "#FF4C4C", hidden |-> FALSE]

ExpectedCards(body) == [k \in SlotSet |-> ExpectedCard(body.values[k])]

\* the response of poll i is a success payload the browser can read
IsSuccess(r) == r.status = 200 /\ ParsesAsJson(r.body)

\* load() of poll i returns in this step
Finishes(i) == polls[i].state # "done" /\ polls'[i].state = "done"

LastApplied == polls[applied[Len(applied)]].out.body

\* C7: when a success payload is applied, every card shows the classification of
\* its own value: null unknown, below the threshold available with the spin
\* hidden, at or above the threshold in use with the spin shown.
C7_CardsClassifyValues ==
    [][\A i \in DOMAIN polls :
          (Finishes(i) /\ polls[i].state = "responded" /\ IsSuccess(polls[i].out))
              => cards' = ExpectedCards(polls[i].out.body)]_vars

C7_Witness ==
    /\ applied # <<>>
    /\ LastApplied.values["d1"] = PyFloat("fin", THRESHOLD)
    /\ cards["d1"] = [val |-> IN_USE, background |-> "#FF4C4C", hidden |-> FALSE]
    /\ cards["d2"].val = AVAILABLE
    /\ cards["d4"].val = DASH

\* C8: a poll that ends in a non-success status or a transport error changes
\* only the timestamp field, to an error string; the cards stay as they were
\* and load() catches the failure.
C8_FailureKeepsCards ==
    [][\A i \in DOMAIN polls :
          (Finishes(i) /\ (polls[i].state = "pending" \/ ~IsSuccess(polls[i].out)))
              => /\ cards' = cards
                 /\ created_text'.kind = "error"
                 /\ polls'[i].outcome = "caught"
                 /\ applied' = applied]_vars

C8_Witness ==
    /\ applied # <<>>
    /\ cards = ExpectedCards(LastApplied)
    /\ cards["d1"].val = IN_USE /\ ~cards["d1"].hidden
    /\ created_text.kind = "error"
    /\ \E i \in DOMAIN polls : polls[i].outcome = "caught" /\ polls[i].out.status = 502

\* C9: a new poll cancels nothing in flight, and a response is applied when it
\* completes: a success payload of a poll that started before one already
\* applied still replaces the display.
C9_LastCompletionWins ==
    [][/\ Len(polls') > Len(polls) => \A i \in DOMAIN polls : polls'[i] = polls[i]
       /\ \A i \in DOMAIN polls :
             (/\ Finishes(i) /\ polls[i].state = "responded" /\ IsSuccess(polls[i].out)
              /\ \E n \in 1..Len(applied) : applied[n] > i)
                 => /\ cards' = ExpectedCards(polls[i].out.body)
                    /\ applied' = Append(applied, i)]_vars

\* the page shows a snapshot older than one it showed before
C9_Witness ==
    /\ Len(applied) >= 2
    /\ LET newer == polls[applied[Len(applied) - 1]]
           older == polls[applied[Len(applied)]]
       IN  /\ applied[Len(applied)] < applied[Len(applied) - 1]
           /\ older.out.body.server_now.utcmin < newer.out.body.server_now.utcmin
           /\ cards = ExpectedCards(older.out.body)
           /\ cards # ExpectedCards(newer.out.body)

\* C10: between tasks the four cards are never a mixture: all four are as the
\* markup has them, or all four show the most recently applied payload.
C10_CardsFromOnePayload ==
    \/ applied = <<>> /\ cards = InitCards
    \/ applied # <<>> /\ cards = ExpectedCards(LastApplied)

C10_Witness ==
    /\ Len(applied) >= 2
    /\ cards = ExpectedCards(LastApplied)
    /\ \A k \in {"d2", "d3"} : cards[k] # ExpectedCards(polls[applied[1]].out.body)[k]
    /\ cards["d1"] = ExpectedCards(polls[applied[1]].out.body)["d1"]

====
